---- MODULE Spec2Model ----
(***************************************************************************)
(* State-machine model of pikaur's install pipeline,                       *)
(* cli_install_packages in pikaur/install_cli.py: resolution, confirmation,*)
(* recipe clone, conflict check, review, build, and the sequenced          *)
(* privileged steps.  External collaborators (resolver, prompts, build     *)
(* tool, pacman) are nondeterministic choices over their possible results. *)
(* A second specification, SpecMain, follows pikaur/main.py: main(), the   *)
(* thread pool of cli_install_packages, sudo_loop and the SIGINT handler.  *)
(***************************************************************************)
EXTENDS Integers, Sequences, FiniteSets, TLC

VARIABLES
    pc,                     \* position in cli_install_packages
    args_needed,            \* args.needed
    args_downloadonly,      \* args.downloadonly
    repo_packages_names,    \* list, result of find_repo_packages
    aur_packages_names,     \* list, result of find_repo_packages
    aur_deps_names,         \* list, result of find_aur_deps
    needs,                  \* explicit remote package -> its remote dependencies
    package_builds,         \* "None" or "dict" (keyed by all_aur_packages_names)
    conflict_result,        \* new package -> set of names it conflicts with
    dep_conflicts,          \* declared conflicts of new packages with pulled-in dependencies
    removal_prompts,        \* installed names the user was asked to remove, in order
    packages_to_be_removed, \* set of names handed to pacman -R
    idx,                    \* loop position of the review / build loops
    version_already_installed, \* packages whose installed version satisfies the request
    review_skipped,         \* packages skipped in review
    review_log,             \* packages whose review ran up to the architecture check
    arch_passed,            \* packages that passed the architecture check
    sudo_acquired,          \* 'sudo true' was spawned
    build_skipped,          \* packages skipped in build
    build_log,              \* packages whose build() was invoked, in order
    built_package_path,     \* packages whose built_package_path is set
    failed_to_build,        \* list failed_to_build
    log,                    \* privileged commands started, in order: [step, pkgs]
    cmd_ok,                 \* steps whose command returned success
    retry_declined,         \* steps whose command failed and the retry was declined
    proceed_declined,       \* steps after whose failure ask_to_continue was declined
    retries,                \* retries taken in the running retry_interactive_command
    markers,                \* packages whose last-installed marker file was written
    summary_printed,        \* the "Failed to build" summary was printed
    exit_code,              \* the status passed to sys.exit, 0 while none was
    reason,                 \* why the run exited
    running_as_root,        \* running_as_root()
    args_debug,             \* args.debug
    main_pc,                \* position of the main thread in main.py
    main_sudo,              \* sudo_loop(once=True) calls made by the main thread
    pipeline,               \* state of the task _run_install
    in_step,                \* the pipeline is in the middle of a phase
    keepalive,              \* state of the pool task sudo_loop
    ticks,                  \* commands spawned by the pool task sudo_loop
    catched_exc,            \* catched_exc of cli_install_packages
    pool_terminated,        \* pool.terminate() was called
    cli_result,             \* how main.py's cli_install_packages ended
    interrupted,            \* how a SIGINT was taken
    interrupt_mid_step,     \* the pipeline was in the middle of a phase then
    tty_restored,           \* restore_tty ran at exit
    status,                 \* exit status of the process, once main_pc is "exited"
    args_positional,        \* args.positional as given on the command line
    args_ignore,            \* args.ignore
    packages,               \* the local list packages
    ignore_idx,             \* position of the loop over args.ignore
    resolver_arg            \* the calls of find_repo_packages, each the list passed

vars == <<pc, args_needed, args_downloadonly, repo_packages_names,
          aur_packages_names, aur_deps_names, needs, package_builds,
          conflict_result, dep_conflicts, removal_prompts,
          packages_to_be_removed, idx,
          version_already_installed, review_skipped, review_log, arch_passed, sudo_acquired,
          build_skipped, build_log, built_package_path, failed_to_build,
          log, cmd_ok, retry_declined, proceed_declined, retries, markers,
          summary_printed, exit_code, reason, running_as_root, args_debug,
          main_pc, main_sudo, pipeline, in_step, keepalive, ticks, catched_exc,
          pool_terminated, cli_result, interrupted, interrupt_mid_step,
          tty_restored, status, args_positional, args_ignore, packages,
          ignore_idx, resolver_arg>>

ignoreV == <<args_positional, args_ignore, packages, ignore_idx, resolver_arg>>
argsV == <<args_needed, args_downloadonly, ignoreV>>
resolvedV == <<repo_packages_names, aur_packages_names, aur_deps_names, needs>>
conflictV == <<conflict_result, dep_conflicts, removal_prompts,
              packages_to_be_removed>>
reviewV == <<version_already_installed, review_skipped, review_log, arch_passed>>
buildV == <<build_skipped, build_log, built_package_path, failed_to_build>>
cmdV == <<log, cmd_ok, retry_declined, proceed_declined, retries>>
endV == <<markers, summary_printed>>
exitV == <<exit_code, reason>>
mainV == <<running_as_root, args_debug, main_pc, main_sudo, pipeline, in_step,
           keepalive, ticks, catched_exc, pool_terminated, cli_result,
           interrupted, interrupt_mid_step, tty_restored, status>>

(***************************************************************************)
(* Bounds and the package universe of the model.                           *)
(***************************************************************************)
MaxRetries == 1
MaxConflicts == 2

RepoChoices == {<<>>, <<"foo">>}
AurChoices == {<<>>, <<"bar">>, <<"bar", "qux">>}
DepChoices == {<<>>, <<"baz">>}
Installed == {"old"}
ValueOrder == <<"old", "foo", "bar", "qux">>

Steps == {"remove", "repo", "deps", "aur"}

(***************************************************************************)
(* Helpers.                                                                *)
(***************************************************************************)
Range(s) == {s[i] : i \in DOMAIN s}

Reverse(s) == [i \in 1..Len(s) |-> s[Len(s) + 1 - i]]

RECURSIVE Flatten(_)
Flatten(ss) == IF ss = <<>> THEN <<>> ELSE Head(ss) \o Flatten(Tail(ss))

Filter(s, S) == SelectSeq(s, LAMBDA x : x \in S)

\* install_cli.py:150
all_aur_packages_names == aur_packages_names \o aur_deps_names

\* as LoopOrder, without reversed()
LoopOrder_Forward == all_aur_packages_names

\* install_cli.py:204 and :257, reversed(all_aur_packages_names)
LoopOrder == Reverse(all_aur_packages_names)

\* install_cli.py:174
all_new_packages_names == repo_packages_names \o aur_packages_names

\* conflict_result.items(), flattened to (new package, conflict) pairs in
\* iteration order
ConflictPairs(cr) ==
    Flatten([i \in 1..Len(all_new_packages_names) |->
        LET k == all_new_packages_names[i] IN
        [j \in 1..Len(Filter(ValueOrder, cr[k])) |->
            <<k, Filter(ValueOrder, cr[k])[j]>>]])

\* as HasConflictAmongNew, but only the first conflict is examined
HasConflictAmongNew_FirstOnly(cr) ==
    /\ ConflictPairs(cr) # <<>>
    /\ ConflictPairs(cr)[1][2] \in Range(all_new_packages_names)

\* install_cli.py:176-183
HasConflictAmongNew(cr) ==
    \E i \in DOMAIN ConflictPairs(cr) :
        ConflictPairs(cr)[i][2] \in Range(all_new_packages_names)

\* install_cli.py:197-201
AllConflictValues(cr) == UNION {cr[k] : k \in DOMAIN cr}

\* install_cli.py:306-310
new_aur_deps_to_install == Filter(aur_deps_names, built_package_path)

\* as aur_packages_to_install, without the built_package_path filter
aur_packages_to_install_Unfiltered == aur_packages_names

\* install_cli.py:331-335
aur_packages_to_install == Filter(aur_packages_names, built_package_path)

\* as StepArgs, with the removal list taken from the prompts, not deduplicated
StepArgs_RemovePrompted(s) ==
    CASE s = "remove" -> removal_prompts
      [] s = "repo" -> repo_packages_names
      [] s = "deps" -> new_aur_deps_to_install
      [] s = "aur" -> aur_packages_to_install

\* the package list each privileged command is given
StepArgs(s) ==
    CASE s = "remove" -> Filter(ValueOrder, packages_to_be_removed)
      [] s = "repo" -> repo_packages_names
      [] s = "deps" -> new_aur_deps_to_install
      [] s = "aur" -> aur_packages_to_install

\* as StepAfter, with the two remote-index installs in the opposite order
StepAfter_AurFirst(s) ==
    CASE s = "remove" -> "repo"
      [] s = "repo" -> "dlcheck"
      [] s = "dlcheck" -> "aur"
      [] s = "aur" -> "deps"
      [] s = "deps" -> "save"

\* statement order of install_cli.py:269-364
StepAfter(s) ==
    CASE s = "remove" -> "repo"
      [] s = "repo" -> "dlcheck"
      [] s = "dlcheck" -> "deps"
      [] s = "deps" -> "aur"
      [] s = "aur" -> "save"

Exit(code, why) ==
    /\ pc' = "exit"
    /\ exit_code' = code
    /\ reason' = why

(***************************************************************************)
(* Initial state: entry of cli_install_packages with some argument set.    *)
(***************************************************************************)
\* the locals of install_cli.py's cli_install_packages before its first
\* statement
PipelineInit ==
    /\ pc = "resolve"
    /\ repo_packages_names = <<>>
    /\ aur_packages_names = <<>>
    /\ aur_deps_names = <<>>
    /\ needs = <<>>
    /\ package_builds = "None"
    /\ conflict_result = <<>>
    /\ dep_conflicts = {}
    /\ removal_prompts = <<>>
    /\ packages_to_be_removed = {}
    /\ idx = 1
    /\ version_already_installed = {}
    /\ review_skipped = {}
    /\ review_log = <<>>
    /\ arch_passed = {}
    /\ sudo_acquired = FALSE
    /\ build_skipped = {}
    /\ build_log = <<>>
    /\ built_package_path = {}
    /\ failed_to_build = <<>>
    /\ log = <<>>
    /\ cmd_ok = {}
    /\ retry_declined = {}
    /\ proceed_declined = {}
    /\ retries = 0
    /\ markers = {}
    /\ summary_printed = FALSE
    /\ exit_code = 0
    /\ reason = "none"

\* the process before main() runs
MainInit ==
    /\ main_pc = "parse"
    /\ main_sudo = 0
    /\ pipeline = "idle"
    /\ in_step = FALSE
    /\ keepalive = "idle"
    /\ ticks = 0
    /\ catched_exc = "None"
    /\ pool_terminated = FALSE
    /\ cli_result = "none"
    /\ interrupted = "no"
    /\ interrupt_mid_step = FALSE
    /\ tty_restored = FALSE
    /\ status = 0

\* install_cli.py's cli_install_packages on its own: main.py takes no step
\* the stripping of args.ignore is left out: nothing to strip
IgnoreNone ==
    /\ args_positional = <<>>
    /\ args_ignore = <<>>
    /\ packages = <<>>
    /\ ignore_idx = 1
    /\ resolver_arg = <<>>

Init ==
    /\ IgnoreNone
    /\ args_needed \in BOOLEAN
    /\ args_downloadonly \in BOOLEAN
    /\ PipelineInit
    /\ running_as_root = FALSE
    /\ args_debug = FALSE
    /\ MainInit

(***************************************************************************)
(* install_cli.py:133-142: resolution of the requested names.              *)
(***************************************************************************)
Resolve ==
    /\ pc = "resolve"
    /\ \E r \in RepoChoices, a \in AurChoices, d \in DepChoices :
        /\ (a = <<>>) => (d = <<>>)
        /\ repo_packages_names' = r
        /\ aur_packages_names' = a
        /\ aur_deps_names' = d
        /\ \E n \in [Range(a) -> SUBSET Range(d)] :
            /\ \A x \in Range(d) : \E p \in Range(a) : x \in n[p]
            /\ needs' = n
    /\ pc' = "prompt"
    /\ UNCHANGED <<mainV, argsV, package_builds, conflictV, idx, reviewV,
                   sudo_acquired, buildV, cmdV, endV, exitV>>

(***************************************************************************)
(* install_cli.py:145-148 and install_prompt, :107-126.  noconfirm is read *)
(* here only: PromptAccepted is noconfirm, or the answer yes (or empty).   *)
(***************************************************************************)
PromptAccepted ==
    /\ pc = "prompt"
    /\ pc' = "clone"
    /\ UNCHANGED <<mainV, argsV, resolvedV, package_builds, conflictV, idx,
                   reviewV, sudo_acquired, buildV, cmdV, endV, exitV>>

PromptDeclined ==
    /\ pc = "prompt"
    /\ Exit(1, "prompt")
    /\ UNCHANGED <<mainV, argsV, resolvedV, package_builds, conflictV, idx,
                   reviewV, sudo_acquired, buildV, cmdV, endV>>

PromptManual ==
    /\ pc = "prompt"
    /\ pc' = "crashed"
    /\ reason' = "NotImplementedError"
    /\ UNCHANGED <<mainV, argsV, resolvedV, package_builds, conflictV, idx,
                   reviewV, sudo_acquired, buildV, cmdV, endV, exit_code>>

(***************************************************************************)
(* install_cli.py:150-166: clone or pull the build recipes.                *)
(***************************************************************************)
CloneDone ==
    /\ pc = "clone"
    /\ package_builds' =
          IF all_aur_packages_names = <<>> THEN "None" ELSE "dict"
    /\ pc' = "conflicts"
    /\ UNCHANGED <<mainV, argsV, resolvedV, conflictV, idx, reviewV,
                   sudo_acquired, buildV, cmdV, endV, exitV>>

CloneErrorContinue ==
    /\ pc = "clone"
    /\ all_aur_packages_names # <<>>
    /\ pc' = "conflicts"
    /\ UNCHANGED <<mainV, argsV, resolvedV, package_builds, conflictV, idx,
                   reviewV, sudo_acquired, buildV, cmdV, endV, exitV>>

CloneErrorAbort ==
    /\ pc = "clone"
    /\ all_aur_packages_names # <<>>
    /\ Exit(1, "clone")
    /\ UNCHANGED <<mainV, argsV, resolvedV, package_builds, conflictV, idx,
                   reviewV, sudo_acquired, buildV, cmdV, endV>>

(***************************************************************************)
(* install_cli.py:170-201: conflict check and removal prompts.             *)
(***************************************************************************)
\* the results check_conflicts can return for the resolved names
ConflictResults ==
    {cr \in [Range(all_new_packages_names) ->
                SUBSET (Installed \cup Range(all_new_packages_names))] :
        /\ \A k \in DOMAIN cr : k \notin cr[k]
        /\ Len(ConflictPairs(cr)) <= MaxConflicts}

\* the conflicts the package metadata can declare between a new package and
\* a dependency pulled in by the run that it does not itself need; these
\* names are not among the arguments of check_conflicts
DepConflictChoices ==
    {{}} \cup
    {{kd} : kd \in {x \in Range(all_new_packages_names)
                              \X Range(aur_deps_names) :
                       x[1] \in DOMAIN needs => x[2] \notin needs[x[1]]}}

ConflictAmongNewAbort ==
    /\ pc = "conflicts"
    /\ \E dc \in DepConflictChoices : dep_conflicts' = dc
    /\ \E cr \in ConflictResults :
        /\ HasConflictAmongNew(cr)
        /\ conflict_result' = cr
    /\ Exit(1, "conflict_new")
    /\ UNCHANGED <<mainV, argsV, resolvedV, package_builds, removal_prompts,
                   packages_to_be_removed, idx, reviewV, sudo_acquired, buildV,
                   cmdV, endV>>

ConflictRemovalDeclined ==
    /\ pc = "conflicts"
    /\ \E dc \in DepConflictChoices : dep_conflicts' = dc
    /\ \E cr \in ConflictResults :
        /\ ~HasConflictAmongNew(cr)
        /\ conflict_result' = cr
        /\ \E d \in 1..Len(ConflictPairs(cr)) :
            removal_prompts' = [i \in 1..d |-> ConflictPairs(cr)[i][2]]
    /\ Exit(1, "conflict_declined")
    /\ UNCHANGED <<mainV, argsV, resolvedV, package_builds,
                   packages_to_be_removed, idx, reviewV, sudo_acquired, buildV,
                   cmdV, endV>>

ConflictsResolved ==
    /\ pc = "conflicts"
    /\ \E dc \in DepConflictChoices : dep_conflicts' = dc
    /\ \E cr \in ConflictResults :
        /\ ~HasConflictAmongNew(cr)
        /\ conflict_result' = cr
        /\ removal_prompts' =
              [i \in 1..Len(ConflictPairs(cr)) |-> ConflictPairs(cr)[i][2]]
        /\ packages_to_be_removed' = AllConflictValues(cr)
    /\ pc' = "review"
    /\ idx' = 1
    /\ UNCHANGED <<mainV, argsV, resolvedV, package_builds, reviewV,
                   sudo_acquired, buildV, cmdV, endV, exitV>>

(***************************************************************************)
(* install_cli.py:203-249: review loop over reversed(all_aur_packages_names)*)
(***************************************************************************)
InLoop(at) == pc = at /\ idx <= Len(LoopOrder)

\* :259, args.needed and repo_status.already_installed: the one status of
\* the recipe that says the installed version satisfies the request
SkipBuild(p) == args_needed /\ p \in version_already_installed

ReviewNoBuilds ==
    /\ InLoop("review")
    /\ package_builds = "None"
    /\ pc' = "crashed"
    /\ reason' = "TypeError"
    /\ UNCHANGED <<mainV, argsV, resolvedV, package_builds, conflictV, idx,
                   reviewV, sudo_acquired, buildV, cmdV, endV, exit_code>>

\* :206-213, repo_status.version_already_installed is found true
ReviewSkip ==
    /\ InLoop("review")
    /\ package_builds = "dict"
    /\ args_needed
    /\ version_already_installed' =
          version_already_installed \cup {LoopOrder[idx]}
    /\ review_skipped' = review_skipped \cup {LoopOrder[idx]}
    /\ idx' = idx + 1
    /\ UNCHANGED <<mainV, pc, argsV, resolvedV, package_builds, conflictV,
                   review_log, arch_passed, sudo_acquired, buildV, cmdV, endV,
                   exitV>>

ReviewNoEditorAbort ==
    /\ InLoop("review")
    /\ package_builds = "dict"
    /\ Exit(2, "editor")
    /\ UNCHANGED <<mainV, argsV, resolvedV, package_builds, conflictV, idx,
                   reviewV, sudo_acquired, buildV, cmdV, endV>>

\* as ReviewArchMismatch, with the loop going on instead of sys.exit
ReviewArchMismatch_NoExit ==
    /\ InLoop("review")
    /\ package_builds = "dict"
    /\ review_log' = Append(review_log, LoopOrder[idx])
    /\ idx' = idx + 1
    /\ UNCHANGED <<mainV, pc, argsV, resolvedV, package_builds, conflictV,
                   version_already_installed, review_skipped, arch_passed,
                   sudo_acquired, buildV, cmdV, endV, exitV>>

\* :240-249, the architecture check fails
ReviewArchMismatch ==
    /\ InLoop("review")
    /\ package_builds = "dict"
    /\ review_log' = Append(review_log, LoopOrder[idx])
    /\ Exit(1, "arch")
    /\ UNCHANGED <<mainV, argsV, resolvedV, package_builds, conflictV, idx,
                   version_already_installed, review_skipped, arch_passed,
                   sudo_acquired, buildV, cmdV, endV>>

ReviewPass ==
    /\ InLoop("review")
    /\ package_builds = "dict"
    /\ review_log' = Append(review_log, LoopOrder[idx])
    /\ arch_passed' = arch_passed \cup {LoopOrder[idx]}
    /\ idx' = idx + 1
    /\ UNCHANGED <<mainV, pc, argsV, resolvedV, package_builds, conflictV,
                   version_already_installed, review_skipped, sudo_acquired,
                   buildV, cmdV, endV, exitV>>

ReviewDone ==
    /\ pc = "review"
    /\ idx > Len(LoopOrder)
    /\ pc' = "sudo"
    /\ UNCHANGED <<mainV, argsV, resolvedV, package_builds, conflictV, idx,
                   reviewV, sudo_acquired, buildV, cmdV, endV, exitV>>

(***************************************************************************)
(* install_cli.py:251-254: get sudo for further questions.                 *)
(***************************************************************************)
SudoTrue ==
    /\ pc = "sudo"
    /\ sudo_acquired' = TRUE
    /\ pc' = "build"
    /\ idx' = 1
    /\ UNCHANGED <<mainV, argsV, resolvedV, package_builds, conflictV, reviewV,
                   buildV, cmdV, endV, exitV>>

(***************************************************************************)
(* install_cli.py:256-267: build loop over reversed(all_aur_packages_names)*)
(***************************************************************************)
\* as BuildSkip, with the 'continue' taken for every package
BuildSkip_Unconditional ==
    /\ InLoop("build")
    /\ build_skipped' = build_skipped \cup {LoopOrder[idx]}
    /\ idx' = idx + 1
    /\ UNCHANGED <<mainV, pc, argsV, resolvedV, package_builds, conflictV,
                   reviewV, sudo_acquired, build_log, built_package_path,
                   failed_to_build, cmdV, endV, exitV>>

BuildSkip ==
    /\ InLoop("build")
    /\ SkipBuild(LoopOrder[idx])
    /\ build_skipped' = build_skipped \cup {LoopOrder[idx]}
    /\ idx' = idx + 1
    /\ UNCHANGED <<mainV, pc, argsV, resolvedV, package_builds, conflictV,
                   reviewV, sudo_acquired, build_log, built_package_path,
                   failed_to_build, cmdV, endV, exitV>>

\* repo_status.build(): the packages with built_package_path set after the
\* build of p returned (ok) or raised BuildError (~ok)
AfterBuild(p, ok) ==
    IF ok THEN built_package_path \cup {p} ELSE built_package_path

\* as BuildOk, with the 'continue' of the needed policy missing
BuildOk_NoSkip ==
    /\ InLoop("build")
    /\ build_log' = Append(build_log, LoopOrder[idx])
    /\ built_package_path' = AfterBuild(LoopOrder[idx], TRUE)
    /\ idx' = idx + 1
    /\ UNCHANGED <<mainV, pc, argsV, resolvedV, package_builds, conflictV,
                   reviewV, sudo_acquired, build_skipped, failed_to_build,
                   cmdV, endV, exitV>>

\* repo_status.build() returns
BuildOk ==
    /\ InLoop("build")
    /\ ~SkipBuild(LoopOrder[idx])
    /\ build_log' = Append(build_log, LoopOrder[idx])
    /\ built_package_path' = AfterBuild(LoopOrder[idx], TRUE)
    /\ idx' = idx + 1
    /\ UNCHANGED <<mainV, pc, argsV, resolvedV, package_builds, conflictV,
                   reviewV, sudo_acquired, build_skipped, failed_to_build,
                   cmdV, endV, exitV>>

\* as BuildFailed, with the run given up at the first BuildError
BuildFailed_Fatal ==
    /\ InLoop("build")
    /\ ~SkipBuild(LoopOrder[idx])
    /\ build_log' = Append(build_log, LoopOrder[idx])
    /\ failed_to_build' = Append(failed_to_build, LoopOrder[idx])
    /\ built_package_path' = AfterBuild(LoopOrder[idx], FALSE)
    /\ Exit(1, "build")
    /\ UNCHANGED <<mainV, argsV, resolvedV, package_builds, conflictV, idx,
                   reviewV, sudo_acquired, build_skipped, cmdV, endV>>

\* repo_status.build() raises BuildError
BuildFailed ==
    /\ InLoop("build")
    /\ ~SkipBuild(LoopOrder[idx])
    /\ build_log' = Append(build_log, LoopOrder[idx])
    /\ failed_to_build' = Append(failed_to_build, LoopOrder[idx])
    /\ built_package_path' = AfterBuild(LoopOrder[idx], FALSE)
    /\ idx' = idx + 1
    /\ UNCHANGED <<mainV, pc, argsV, resolvedV, package_builds, conflictV,
                   reviewV, sudo_acquired, build_skipped, cmdV, endV, exitV>>

BuildDone ==
    /\ pc = "build"
    /\ idx > Len(LoopOrder)
    /\ pc' = "remove"
    /\ UNCHANGED <<mainV, argsV, resolvedV, package_builds, conflictV, idx,
                   reviewV, sudo_acquired, buildV, cmdV, endV, exitV>>

(***************************************************************************)
(* install_cli.py:269-301 and :306-352: the four privileged commands, each *)
(* run through retry_interactive_command and followed by ask_to_continue.  *)
(***************************************************************************)
Started(s) ==
    IF retries = 0
    THEN Append(log, [step |-> s, pkgs |-> StepArgs(s)])
    ELSE log

StepSkipped(s) ==
    /\ pc = s
    /\ StepArgs(s) = <<>>
    /\ pc' = StepAfter(s)
    /\ UNCHANGED <<mainV, argsV, resolvedV, package_builds, conflictV, idx,
                   reviewV, sudo_acquired, buildV, cmdV, endV, exitV>>

\* as CmdSucceeded, with the command issued for an empty list too
CmdSucceeded_EmptyToo(s) ==
    /\ pc = s
    /\ log' = Started(s)
    /\ cmd_ok' = cmd_ok \cup {s}
    /\ retries' = 0
    /\ pc' = StepAfter(s)
    /\ UNCHANGED <<mainV, argsV, resolvedV, package_builds, conflictV, idx,
                   reviewV, sudo_acquired, buildV, retry_declined,
                   proceed_declined, endV, exitV>>

CmdSucceeded(s) ==
    /\ pc = s
    /\ StepArgs(s) # <<>>
    /\ log' = Started(s)
    /\ cmd_ok' = cmd_ok \cup {s}
    /\ retries' = 0
    /\ pc' = StepAfter(s)
    /\ UNCHANGED <<mainV, argsV, resolvedV, package_builds, conflictV, idx,
                   reviewV, sudo_acquired, buildV, retry_declined,
                   proceed_declined, endV, exitV>>

\* inside retry_interactive_command: the command failed, the user retries
CmdRetried(s) ==
    /\ pc = s
    /\ StepArgs(s) # <<>>
    /\ retries < MaxRetries
    /\ log' = Started(s)
    /\ retries' = retries + 1
    /\ UNCHANGED <<mainV, pc, argsV, resolvedV, package_builds, conflictV, idx,
                   reviewV, sudo_acquired, buildV, cmd_ok, retry_declined,
                   proceed_declined, endV, exitV>>

\* retry_interactive_command returned false, ask_to_continue answered yes
CmdFailedContinue(s) ==
    /\ pc = s
    /\ StepArgs(s) # <<>>
    /\ log' = Started(s)
    /\ retry_declined' = retry_declined \cup {s}
    /\ retries' = 0
    /\ pc' = StepAfter(s)
    /\ UNCHANGED <<mainV, argsV, resolvedV, package_builds, conflictV, idx,
                   reviewV, sudo_acquired, buildV, cmd_ok, proceed_declined,
                   endV, exitV>>

\* as CmdFailedAbort, without the sys.exit
CmdFailedAbort_NoExit(s) ==
    /\ pc = s
    /\ StepArgs(s) # <<>>
    /\ log' = Started(s)
    /\ retry_declined' = retry_declined \cup {s}
    /\ proceed_declined' = proceed_declined \cup {s}
    /\ retries' = 0
    /\ pc' = StepAfter(s)
    /\ UNCHANGED <<mainV, argsV, resolvedV, package_builds, conflictV, idx,
                   reviewV, sudo_acquired, buildV, cmd_ok, endV, exitV>>

\* retry_interactive_command returned false, ask_to_continue answered no
CmdFailedAbort(s) ==
    /\ pc = s
    /\ StepArgs(s) # <<>>
    /\ log' = Started(s)
    /\ retry_declined' = retry_declined \cup {s}
    /\ proceed_declined' = proceed_declined \cup {s}
    /\ retries' = 0
    /\ Exit(1, "step_declined")
    /\ UNCHANGED <<mainV, argsV, resolvedV, package_builds, conflictV, idx,
                   reviewV, sudo_acquired, buildV, cmd_ok, endV>>

(***************************************************************************)
(* install_cli.py:303-304: download-only return.                           *)
(***************************************************************************)
\* as DownloadOnlyReturn, with the return missing
DownloadOnlyReturn_FallThrough ==
    /\ pc = "dlcheck"
    /\ args_downloadonly
    /\ pc' = StepAfter("dlcheck")
    /\ UNCHANGED <<mainV, argsV, resolvedV, package_builds, conflictV, idx,
                   reviewV, sudo_acquired, buildV, cmdV, endV, exitV>>

DownloadOnlyReturn ==
    /\ pc = "dlcheck"
    /\ args_downloadonly
    /\ pc' = "returned"
    /\ UNCHANGED <<mainV, argsV, resolvedV, package_builds, conflictV, idx,
                   reviewV, sudo_acquired, buildV, cmdV, endV, exitV>>

DownloadOnlyPassed ==
    /\ pc = "dlcheck"
    /\ ~args_downloadonly
    /\ pc' = StepAfter("dlcheck")
    /\ UNCHANGED <<mainV, argsV, resolvedV, package_builds, conflictV, idx,
                   reviewV, sudo_acquired, buildV, cmdV, endV, exitV>>

(***************************************************************************)
(* install_cli.py:354-364: save the git hash of the installed packages.    *)
(***************************************************************************)
SaveHashes ==
    /\ pc = "save"
    /\ markers' = IF package_builds = "dict"
                  THEN Range(all_aur_packages_names) \cap built_package_path
                  ELSE {}
    /\ pc' = "summary"
    /\ UNCHANGED <<mainV, argsV, resolvedV, package_builds, conflictV, idx,
                   reviewV, sudo_acquired, buildV, cmdV, summary_printed,
                   exitV>>

(***************************************************************************)
(* install_cli.py:366-370: summary of the failed builds, then return.      *)
(***************************************************************************)
PrintFailed ==
    /\ pc = "summary"
    /\ summary_printed' = (failed_to_build # <<>>)
    /\ pc' = "returned"
    /\ UNCHANGED <<mainV, argsV, resolvedV, package_builds, conflictV, idx,
                   reviewV, sudo_acquired, buildV, cmdV, markers, exitV>>

Next ==
    \/ Resolve
    \/ PromptAccepted
    \/ PromptDeclined
    \/ PromptManual
    \/ CloneDone
    \/ CloneErrorContinue
    \/ CloneErrorAbort
    \/ ConflictAmongNewAbort
    \/ ConflictRemovalDeclined
    \/ ConflictsResolved
    \/ ReviewNoBuilds
    \/ ReviewSkip
    \/ ReviewNoEditorAbort
    \/ ReviewArchMismatch
    \/ ReviewPass
    \/ ReviewDone
    \/ SudoTrue
    \/ BuildSkip
    \/ BuildOk
    \/ BuildFailed
    \/ BuildDone
    \/ \E s \in Steps : StepSkipped(s)
    \/ \E s \in Steps : CmdSucceeded(s)
    \/ \E s \in Steps : CmdRetried(s)
    \/ \E s \in Steps : CmdFailedContinue(s)
    \/ \E s \in Steps : CmdFailedAbort(s)
    \/ DownloadOnlyReturn
    \/ DownloadOnlyPassed
    \/ SaveHashes
    \/ PrintFailed

Spec == Init /\ [][Next]_vars

TypeOK ==
    /\ pc \in {"resolve", "prompt", "clone", "conflicts", "review", "sudo",
               "build", "remove", "repo", "dlcheck", "deps", "aur", "save",
               "summary", "returned", "exit", "crashed"}
    /\ exit_code \in {0, 1, 2}
    /\ retries \in 0..MaxRetries

(***************************************************************************)
(* The stripping of the ignored names, lines 134-139 of install_cli.py.    *)
(* args_positional keeps the list as it was given: the code strips         *)
(* the list in place.                                                      *)
(***************************************************************************)
MaxLen == 3
MaxIgnore == 2

Names == {"foo", "bar"}

SeqsUpTo(S, n) == UNION {[1..k -> S] : k \in 0..n}

\* list.remove(x): the list without the first item equal to x
RECURSIVE ListRemove(_, _)
ListRemove(s, x) ==
    IF s = <<>> THEN <<>>
    ELSE IF Head(s) = x THEN Tail(s)
    ELSE <<Head(s)>> \o ListRemove(Tail(s), x)

otherV == <<mainV, pc, args_needed, args_downloadonly, resolvedV,
            package_builds, conflictV, idx, reviewV, sudo_acquired, buildV,
            cmdV, endV, exitV>>

InitIgnore ==
    /\ args_positional \in SeqsUpTo(Names, MaxLen)
    /\ args_ignore \in SeqsUpTo(Names, MaxIgnore)
    /\ packages = args_positional
    /\ ignore_idx = 1
    /\ resolver_arg = <<>>
    /\ args_needed = FALSE
    /\ args_downloadonly = FALSE
    /\ PipelineInit
    /\ running_as_root = FALSE
    /\ args_debug = FALSE
    /\ MainInit

InIgnoreLoop ==
    /\ pc = "resolve"
    /\ resolver_arg = <<>>
    /\ ignore_idx <= Len(args_ignore)

IgnoreRemove ==
    /\ InIgnoreLoop
    /\ args_ignore[ignore_idx] \in Range(packages)
    /\ packages' = ListRemove(packages, args_ignore[ignore_idx])
    /\ ignore_idx' = ignore_idx + 1
    /\ UNCHANGED <<otherV, args_positional, args_ignore, resolver_arg>>

IgnoreAbsent ==
    /\ InIgnoreLoop
    /\ args_ignore[ignore_idx] \notin Range(packages)
    /\ ignore_idx' = ignore_idx + 1
    /\ UNCHANGED <<otherV, args_positional, args_ignore, packages,
                   resolver_arg>>

FindRepoPackages ==
    /\ pc = "resolve"
    /\ resolver_arg = <<>>
    /\ ignore_idx > Len(args_ignore)
    /\ resolver_arg' = <<packages>>
    /\ UNCHANGED <<otherV, args_positional, args_ignore, packages, ignore_idx>>

NextIgnore ==
    \/ IgnoreRemove
    \/ IgnoreAbsent
    \/ FindRepoPackages

SpecIgnore == InitIgnore /\ [][NextIgnore]_vars

(***************************************************************************)
(* main.py: main(), cli_install_packages() and sudo_loop().  The main      *)
(* thread, the pool task _run_install (the pipeline) and the pool task     *)
(* sudo_loop (the keep-alive) interleave; a SIGINT can arrive at any time. *)
(* The pipeline is followed phase by phase, each phase in two steps, and   *)
(* ends by returning, by raising SysExit(code) or by another exception.    *)
(***************************************************************************)
MaxTicks == 2

pipeV == <<pc, argsV, resolvedV, package_builds, conflictV, idx, reviewV,
           sudo_acquired, buildV, cmdV, endV, exitV>>
flagsV == <<running_as_root, args_debug>>
threadsV == <<pipeline, in_step, keepalive, ticks>>
sigV == <<interrupted, interrupt_mid_step>>
outV == <<tty_restored, status>>

\* statement order of install_cli.py:133-370
PipelinePhases ==
    <<"resolve", "prompt", "clone", "conflicts", "review", "sudo", "build",
      "remove", "repo", "dlcheck", "deps", "aur", "save", "summary",
      "returned">>

PhaseAfter(p) ==
    PipelinePhases[(CHOOSE i \in DOMAIN PipelinePhases :
                        PipelinePhases[i] = p) + 1]

\* the phases that run a command through sudo, install_cli.py:269-352
PrivilegedPhases == {"remove", "repo", "deps", "aur"}

\* the codes the pipeline aborts with, install_cli.py:43-352
PipelineExitCodes == {1, 2}

\* main.py:338, atexit.register(restore_tty) was executed
AtExitRegistered == main_pc \notin {"parse", "check_deps", "setup"}

\* main.py:340-341, handle_sig_int is the handler of SIGINT
SigIntHandlerInstalled == AtExitRegistered /\ ~args_debug

\* the main thread is inside 'with ThreadPool(processes=2) as pool'
InPool == main_pc \in {"get", "terminate", "after"}

\* the process ends with status s: the atexit handlers run, the with
\* statement of a pool still open terminates it, and the daemon threads of
\* the pool end with the process
ProcessExit(s) ==
    /\ main_pc' = "exited"
    /\ status' = s
    /\ tty_restored' = AtExitRegistered
    /\ pool_terminated' = (pool_terminated \/ InPool)
    /\ keepalive' = IF keepalive = "running" THEN "dead" ELSE keepalive
    /\ pipeline' = IF pipeline = "running" THEN "dead" ELSE pipeline

InitMain ==
    /\ IgnoreNone
    /\ args_needed = FALSE
    /\ args_downloadonly = FALSE
    /\ PipelineInit
    /\ running_as_root \in BOOLEAN
    /\ args_debug \in BOOLEAN
    /\ MainInit

(***************************************************************************)
(* main.py:326-341: main() up to the call of cli_entry_point.              *)
(***************************************************************************)
MainParseArgsError ==
    /\ main_pc = "parse"
    /\ ProcessExit(22)
    /\ UNCHANGED <<pipeV, flagsV, main_sudo, in_step, ticks, catched_exc,
                   cli_result, sigV>>

MainParseArgs ==
    /\ main_pc = "parse"
    /\ main_pc' = "check_deps"
    /\ UNCHANGED <<pipeV, flagsV, main_sudo, threadsV, catched_exc,
                   pool_terminated, cli_result, sigV, outV>>

MainNoSystemd ==
    /\ main_pc = "check_deps"
    /\ running_as_root
    /\ ProcessExit(65)
    /\ UNCHANGED <<pipeV, flagsV, main_sudo, in_step, ticks, catched_exc,
                   cli_result, sigV>>

MainMissingDep ==
    /\ main_pc = "check_deps"
    /\ ProcessExit(2)
    /\ UNCHANGED <<pipeV, flagsV, main_sudo, in_step, ticks, catched_exc,
                   cli_result, sigV>>

MainRuntimeDepsOk ==
    /\ main_pc = "check_deps"
    /\ main_pc' = "setup"
    /\ UNCHANGED <<pipeV, flagsV, main_sudo, threadsV, catched_exc,
                   pool_terminated, cli_result, sigV, outV>>

\* create_dirs raises Exception, uncaught: traceback and status 1
MainCreateDirsFailed ==
    /\ main_pc = "setup"
    /\ running_as_root
    /\ ProcessExit(1)
    /\ UNCHANGED <<pipeV, flagsV, main_sudo, in_step, ticks, catched_exc,
                   cli_result, sigV>>

\* create_dirs, atexit.register, signal.signal
MainSetup ==
    /\ main_pc = "setup"
    /\ main_pc' = "entry"
    /\ UNCHANGED <<pipeV, flagsV, main_sudo, threadsV, catched_exc,
                   pool_terminated, cli_result, sigV, outV>>

(***************************************************************************)
(* main.py:114-135: cli_install_packages, the main thread.                 *)
(***************************************************************************)
\* :119-120, the pipeline runs in the main thread
MainRunAsRoot ==
    /\ main_pc = "entry"
    /\ running_as_root
    /\ pipeline' = "running"
    /\ main_pc' = "run_direct"
    /\ UNCHANGED <<pipeV, flagsV, main_sudo, in_step, keepalive, ticks,
                   catched_exc, pool_terminated, cli_result, sigV, outV>>

\* as MainSudoOnce, without the call of sudo_loop
MainSudoOnce_Skipped ==
    /\ main_pc = "entry"
    /\ ~running_as_root
    /\ main_pc' = "pool"
    /\ UNCHANGED <<pipeV, flagsV, main_sudo, threadsV, catched_exc,
                   pool_terminated, cli_result, sigV, outV>>

\* :122, sudo_loop(once=True): one command, waited for
MainSudoOnce ==
    /\ main_pc = "entry"
    /\ ~running_as_root
    /\ main_sudo' = main_sudo + 1
    /\ main_pc' = "pool"
    /\ UNCHANGED <<pipeV, flagsV, threadsV, catched_exc, pool_terminated,
                   cli_result, sigV, outV>>

\* :123-127, both tasks are handed to the pool
MainStartPool ==
    /\ main_pc = "pool"
    /\ pipeline' = "running"
    /\ keepalive' = "running"
    /\ main_pc' = "get"
    /\ UNCHANGED <<pipeV, flagsV, main_sudo, in_step, ticks, catched_exc,
                   pool_terminated, cli_result, sigV, outV>>

\* :129, install_packages_thread.get() returns
MainGetReturned ==
    /\ main_pc = "get"
    /\ pipeline = "returned"
    /\ main_pc' = "terminate"
    /\ UNCHANGED <<pipeV, flagsV, main_sudo, threadsV, catched_exc,
                   pool_terminated, cli_result, sigV, outV>>

\* :130-131, get() raises the exception of the pipeline
MainGetRaised ==
    /\ main_pc = "get"
    /\ pipeline \in {"SysExit", "Exception"}
    /\ catched_exc' = pipeline
    /\ main_pc' = "terminate"
    /\ UNCHANGED <<pipeV, flagsV, main_sudo, threadsV, pool_terminated,
                   cli_result, sigV, outV>>

\* as MainTerminate, with the workers of the pool joined
MainTerminate_Join ==
    /\ main_pc = "terminate"
    /\ keepalive # "running"
    /\ pool_terminated' = TRUE
    /\ main_pc' = "after"
    /\ UNCHANGED <<pipeV, flagsV, main_sudo, threadsV, catched_exc, cli_result,
                   sigV, outV>>

\* :132-133, pool.terminate(): a ThreadPool neither stops nor joins its
\* worker threads
MainTerminate ==
    /\ main_pc = "terminate"
    /\ pool_terminated' = TRUE
    /\ main_pc' = "after"
    /\ UNCHANGED <<pipeV, flagsV, main_sudo, threadsV, catched_exc, cli_result,
                   sigV, outV>>

\* :134, catched_exc is None
MainReturn ==
    /\ main_pc = "after"
    /\ catched_exc = "None"
    /\ cli_result' = "returned"
    /\ main_pc' = "finish"
    /\ UNCHANGED <<pipeV, flagsV, main_sudo, threadsV, catched_exc,
                   pool_terminated, sigV, outV>>

\* :134-135, raise catched_exc
MainReraise ==
    /\ main_pc = "after"
    /\ catched_exc # "None"
    /\ cli_result' = "raised"
    /\ main_pc' = "raised"
    /\ UNCHANGED <<pipeV, flagsV, main_sudo, threadsV, catched_exc,
                   pool_terminated, sigV, outV>>

\* :120, _run_install() returns
MainDirectReturned ==
    /\ main_pc = "run_direct"
    /\ pipeline = "returned"
    /\ cli_result' = "returned"
    /\ main_pc' = "finish"
    /\ UNCHANGED <<pipeV, flagsV, main_sudo, threadsV, catched_exc,
                   pool_terminated, sigV, outV>>

\* :120, _run_install() raises
MainDirectRaised ==
    /\ main_pc = "run_direct"
    /\ pipeline \in {"SysExit", "Exception"}
    /\ cli_result' = "raised"
    /\ main_pc' = "raised"
    /\ UNCHANGED <<pipeV, flagsV, main_sudo, threadsV, catched_exc,
                   pool_terminated, sigV, outV>>

(***************************************************************************)
(* main.py:343-350: the end of main().                                     *)
(***************************************************************************)
MainExitOk ==
    /\ main_pc = "finish"
    /\ ProcessExit(0)
    /\ UNCHANGED <<pipeV, flagsV, main_sudo, in_step, ticks, catched_exc,
                   cli_result, sigV>>

\* :348-349
MainExitSysExit ==
    /\ main_pc = "raised"
    /\ pipeline = "SysExit"
    /\ ProcessExit(exit_code)
    /\ UNCHANGED <<pipeV, flagsV, main_sudo, in_step, ticks, catched_exc,
                   cli_result, sigV>>

\* :345-347, the exception is a BrokenPipeError
MainExitBrokenPipe ==
    /\ main_pc = "raised"
    /\ pipeline = "Exception"
    /\ ProcessExit(0)
    /\ UNCHANGED <<pipeV, flagsV, main_sudo, in_step, ticks, catched_exc,
                   cli_result, sigV>>

\* no except clause matches: traceback and status 1
MainExitUncaught ==
    /\ main_pc = "raised"
    /\ pipeline = "Exception"
    /\ ProcessExit(1)
    /\ UNCHANGED <<pipeV, flagsV, main_sudo, in_step, ticks, catched_exc,
                   cli_result, sigV>>

MainThread ==
    \/ MainParseArgsError
    \/ MainParseArgs
    \/ MainNoSystemd
    \/ MainMissingDep
    \/ MainRuntimeDepsOk
    \/ MainCreateDirsFailed
    \/ MainSetup
    \/ MainRunAsRoot
    \/ MainSudoOnce
    \/ MainStartPool
    \/ MainGetReturned
    \/ MainGetRaised
    \/ MainTerminate
    \/ MainReturn
    \/ MainReraise
    \/ MainDirectReturned
    \/ MainDirectRaised
    \/ MainExitOk
    \/ MainExitSysExit
    \/ MainExitBrokenPipe
    \/ MainExitUncaught

(***************************************************************************)
(* main.py:116-117: the task _run_install.                                 *)
(***************************************************************************)
PipelineBegin ==
    /\ pipeline = "running"
    /\ ~in_step
    /\ pc # "sudo"
    /\ in_step' = TRUE
    /\ UNCHANGED <<pipeV, flagsV, main_pc, main_sudo, pipeline, keepalive,
                   ticks, catched_exc, pool_terminated, cli_result, sigV,
                   outV>>

PipelineEnd ==
    /\ pipeline = "running"
    /\ in_step
    /\ in_step' = FALSE
    /\ pc' = PhaseAfter(pc)
    /\ pipeline' = IF PhaseAfter(pc) = "returned" THEN "returned"
                   ELSE "running"
    /\ UNCHANGED <<argsV, resolvedV, package_builds, conflictV, idx, reviewV,
                   sudo_acquired, buildV, cmdV, endV, exitV, flagsV, main_pc,
                   main_sudo, keepalive, ticks, catched_exc, pool_terminated,
                   cli_result, sigV, outV>>

\* install_cli.py:251-254 inside the task
PipelineSudoTrue ==
    /\ pipeline = "running"
    /\ ~in_step
    /\ SudoTrue

\* the pipeline aborts: SysExit(code)
PipelineSysExit ==
    /\ pipeline = "running"
    /\ in_step
    /\ in_step' = FALSE
    /\ pipeline' = "SysExit"
    /\ \E code \in PipelineExitCodes : Exit(code, "SysExit")
    /\ UNCHANGED <<argsV, resolvedV, package_builds, conflictV, idx, reviewV,
                   sudo_acquired, buildV, cmdV, endV, flagsV, main_pc,
                   main_sudo, keepalive, ticks, catched_exc, pool_terminated,
                   cli_result, sigV, outV>>

\* the pipeline ends in any other exception
PipelineError ==
    /\ pipeline = "running"
    /\ in_step
    /\ in_step' = FALSE
    /\ pipeline' = "Exception"
    /\ pc' = "crashed"
    /\ reason' = "Exception"
    /\ UNCHANGED <<argsV, resolvedV, package_builds, conflictV, idx, reviewV,
                   sudo_acquired, buildV, cmdV, endV, exit_code, flagsV,
                   main_pc, main_sudo, keepalive, ticks, catched_exc,
                   pool_terminated, cli_result, sigV, outV>>

(***************************************************************************)
(* main.py:103-111: the task sudo_loop of the pool.                        *)
(***************************************************************************)
\* :108-111, one round: the command, then sleep(SUDO_LOOP_INTERVAL)
KeepAliveSpawn ==
    /\ keepalive = "running"
    /\ ticks < MaxTicks
    /\ ticks' = ticks + 1
    /\ UNCHANGED <<pipeV, flagsV, main_pc, main_sudo, pipeline, in_step,
                   keepalive, catched_exc, pool_terminated, cli_result, sigV,
                   outV>>

\* interactive_spawn raises: the exception is kept in the result object of
\* the task, which nobody reads
KeepAliveError ==
    /\ keepalive = "running"
    /\ keepalive' = "failed"
    /\ UNCHANGED <<pipeV, flagsV, main_pc, main_sudo, pipeline, in_step, ticks,
                   catched_exc, pool_terminated, cli_result, sigV, outV>>

(***************************************************************************)
(* main.py:321-323 and :340-341: SIGINT.                                   *)
(***************************************************************************)
\* as SigIntHandled, with the status of a decline
SigIntHandled_Status1 ==
    /\ main_pc # "exited"
    /\ SigIntHandlerInstalled
    /\ interrupted' = "handler"
    /\ interrupt_mid_step' = (pipeline = "running" /\ in_step)
    /\ ProcessExit(1)
    /\ UNCHANGED <<pipeV, flagsV, main_sudo, in_step, ticks, catched_exc,
                   cli_result>>

\* handle_sig_int runs in the main thread as soon as the signal arrives
SigIntHandled ==
    /\ main_pc # "exited"
    /\ SigIntHandlerInstalled
    /\ interrupted' = "handler"
    /\ interrupt_mid_step' = (pipeline = "running" /\ in_step)
    /\ ProcessExit(125)
    /\ UNCHANGED <<pipeV, flagsV, main_sudo, in_step, ticks, catched_exc,
                   cli_result>>

\* no handler of main.py is installed: KeyboardInterrupt, uncaught; the
\* status is 1 or that of a death by SIGINT, by interpreter version
SigIntDefault ==
    /\ main_pc # "exited"
    /\ ~SigIntHandlerInstalled
    /\ interrupted' = "default"
    /\ interrupt_mid_step' = (pipeline = "running" /\ in_step)
    /\ \E s \in {1, 130} : ProcessExit(s)
    /\ UNCHANGED <<pipeV, flagsV, main_sudo, in_step, ticks, catched_exc,
                   cli_result>>

NextMain ==
    \/ MainThread
    \/ PipelineBegin
    \/ PipelineEnd
    \/ PipelineSudoTrue
    \/ PipelineSysExit
    \/ PipelineError
    \/ KeepAliveSpawn
    \/ KeepAliveError
    \/ SigIntHandled
    \/ SigIntDefault

SpecMain == InitMain /\ [][NextMain]_vars

\* the main thread is scheduled whenever it can take a step
FairSpecMain == SpecMain /\ WF_vars(MainThread)

TypeOKMain ==
    /\ main_pc \in {"parse", "check_deps", "setup", "entry", "run_direct",
                    "pool", "get", "terminate", "after", "finish", "raised",
                    "exited"}
    /\ pipeline \in {"idle", "running", "returned", "SysExit", "Exception",
                     "dead"}
    /\ keepalive \in {"idle", "running", "failed", "dead"}
    /\ ticks \in 0..MaxTicks
    /\ main_sudo \in 0..1
    /\ catched_exc \in {"None", "SysExit", "Exception"}
    /\ cli_result \in {"none", "returned", "raised"}
    /\ interrupted \in {"no", "handler", "default"}
    /\ status \in {0, 1, 2, 22, 65, 125, 130}

(***************************************************************************)
(* Definitions used by the properties.                                     *)
(***************************************************************************)
Rank(s) ==
    CASE s = "remove" -> 1
      [] s = "repo" -> 2
      [] s = "deps" -> 3
      [] s = "aur" -> 4

LogSteps == {log[i].step : i \in DOMAIN log}

\* packages handed to a command of step s
BatchOf(s) == UNION {Range(log[i].pkgs) : i \in {j \in DOMAIN log : log[j].step = s}}

\* steps whose retry_interactive_command call has returned
Finished == cmd_ok \cup retry_declined

Count(x, seq) == Cardinality({i \in DOMAIN seq : seq[i] = x})

\* every package installed by this run
NewlyInstalled ==
    Range(repo_packages_names) \cup Range(aur_packages_names)
        \cup Range(aur_deps_names)

NoBuildRemovalInstall ==
    /\ build_log = <<>>
    /\ built_package_path = {}
    /\ failed_to_build = <<>>
    /\ log = <<>>
    /\ markers = {}

(***************************************************************************)
(* C1: a package whose build raised BuildError is in neither the           *)
(* dependency install batch nor the explicit install batch, and its        *)
(* last-installed marker is not written in that run.                       *)
(***************************************************************************)
C1_FailedBuildNeverInstalled ==
    \A p \in Range(failed_to_build) :
        /\ p \notin BatchOf("deps")
        /\ p \notin BatchOf("aur")
        /\ p \notin markers

C1_Witness ==
    /\ pc = "returned"
    /\ failed_to_build # <<>>
    /\ "aur" \in cmd_ok
    /\ markers # {}

(***************************************************************************)
(* C2: the privileged steps run in the order removal, repository install,  *)
(* dependency install, explicit install, marker persistence; a step starts *)
(* only after every earlier step of the run has finished; when an explicit *)
(* package and its dependency both build and the run completes, the        *)
(* dependency is in the dependency batch, the explicit package in the      *)
(* later explicit batch, and both markers are written.                     *)
(***************************************************************************)
C2_FixedStepOrder ==
    /\ \A i, j \in DOMAIN log :
          i < j => Rank(log[i].step) < Rank(log[j].step)
    /\ \A i \in DOMAIN log : i < Len(log) => log[i].step \in Finished
    /\ markers # {} =>
          /\ pc \in {"summary", "returned"}
          /\ LogSteps \subseteq Finished
    /\ (pc \in {"summary", "returned"} /\ ~args_downloadonly) =>
          \A p \in Range(aur_packages_names) : \A d \in needs[p] :
              {p, d} \subseteq built_package_path =>
                  /\ \E i, j \in DOMAIN log :
                        /\ i < j
                        /\ log[i].step = "deps" /\ d \in Range(log[i].pkgs)
                        /\ log[j].step = "aur" /\ p \in Range(log[j].pkgs)
                  /\ {p, d} \subseteq markers

C2_Witness ==
    /\ pc = "returned"
    /\ [i \in DOMAIN log |-> log[i].step] = <<"remove", "repo", "deps", "aur">>
    /\ "baz" \in needs["bar"]
    /\ {"bar", "baz"} \subseteq markers

C4_MarkerOnlyIfInstalled ==
    \A p \in markers :
        \E i \in DOMAIN log :
            /\ log[i].step \in {"deps", "aur"}
            /\ log[i].step \in cmd_ok
            /\ p \in Range(log[i].pkgs)

(***************************************************************************)
(* C5 as stated: once a privileged step has failed and the retry was       *)
(* declined, the run has exited with a non-zero status, that step is the   *)
(* last one started and no marker is written.                              *)
(***************************************************************************)
C5_RetryDeclinedExits ==
    \A s \in retry_declined :
        /\ pc = "exit"
        /\ exit_code >= 1
        /\ log[Len(log)].step = s
        /\ markers = {}

(***************************************************************************)
(* C5 amended: once a privileged step has failed, the retry was declined   *)
(* and the following confirmation to proceed was declined too, the run has *)
(* exited with status 1, that step is the last one started, and neither a  *)
(* marker is written nor the summary printed.                              *)
(***************************************************************************)
C5_ProceedDeclinedExits ==
    \A s \in proceed_declined :
        /\ pc = "exit"
        /\ exit_code = 1
        /\ reason = "step_declined"
        /\ log[Len(log)].step = s
        /\ markers = {}
        /\ ~summary_printed

C5_Witness ==
    /\ pc = "exit"
    /\ proceed_declined = {"repo"}
    /\ "remove" \in retry_declined
    /\ built_package_path # {}

(***************************************************************************)
(* C6 as stated: in download-only mode no build is invoked, no             *)
(* remote-index dependency install and no remote-index explicit install is *)
(* started, and no marker is written.                                      *)
(***************************************************************************)
C6_DownloadOnlyNoBuild ==
    args_downloadonly =>
        /\ build_log = <<>>
        /\ LogSteps \cap {"deps", "aur"} = {}
        /\ markers = {}

(***************************************************************************)
(* C6 amended: in download-only mode no remote-index dependency install    *)
(* and no remote-index explicit install is started and no marker is        *)
(* written; the run returns from the download-only check.                  *)
(***************************************************************************)
C6_DownloadOnlyNoAurInstall ==
    args_downloadonly =>
        /\ LogSteps \cap {"deps", "aur"} = {}
        /\ markers = {}
        /\ pc \notin {"deps", "aur", "save", "summary"}

C6_Witness ==
    /\ args_downloadonly
    /\ pc = "returned"
    /\ "repo" \in cmd_ok
    /\ built_package_path = {"bar", "baz"}

(***************************************************************************)
(* C7: a BuildError is not fatal: once the build loop is over, every       *)
(* package of the build order that was not skipped had its build invoked;  *)
(* every package whose build failed is in failed_to_build exactly once;    *)
(* and a run with failed builds ends early only by a declined privileged   *)
(* step, so it went on to the install steps.                               *)
(***************************************************************************)
C7_BuildFailureNotFatal ==
    /\ (pc \in {"remove", "repo", "dlcheck", "deps", "aur", "save", "summary",
                "returned"} \/ reason = "step_declined") =>
          \A p \in Range(all_aur_packages_names) :
              p \in build_skipped \/ p \in Range(build_log)
    /\ \A p \in Range(build_log) :
          /\ Count(p, build_log) = 1
          /\ (pc = "build" /\ idx <= Len(LoopOrder) /\ LoopOrder[idx] = p)
                \/ IF p \in built_package_path
                   THEN Count(p, failed_to_build) = 0
                   ELSE Count(p, failed_to_build) = 1
    /\ Range(failed_to_build) \subseteq Range(build_log)
    /\ (failed_to_build # <<>> /\ pc \in {"exit", "crashed"}) =>
          reason = "step_declined"

C7_Witness ==
    /\ pc = "returned"
    /\ build_log = <<"baz", "qux", "bar">>
    /\ failed_to_build = <<"baz", "bar">>
    /\ "aur" \in cmd_ok
    /\ markers = {"qux"}

(***************************************************************************)
(* C8: when an explicit package failed to build and a dependency of it was *)
(* built, the dependency is in a dependency install batch only if another  *)
(* explicit package of the run needs it.                                   *)
(***************************************************************************)
C8_OrphanDependencyNotInstalled ==
    \A p \in Range(aur_packages_names) \cap Range(failed_to_build) :
        \A d \in needs[p] \cap built_package_path :
            d \in BatchOf("deps") =>
                \E q \in Range(aur_packages_names) \ {p} : d \in needs[q]

(***************************************************************************)
(* C9: a run with at least one failed build has printed the summary of     *)
(* the failed packages when it ends, by return or by exit.                 *)
(***************************************************************************)
C9_SummaryAlwaysPrinted ==
    (pc \in {"returned", "exit"} /\ failed_to_build # <<>>) => summary_printed

(***************************************************************************)
(* C10: the architecture check of every package that is not skipped as up  *)
(* to date is done before the first build: once a build was invoked, each  *)
(* such package has passed the check, no review is still running, and      *)
(* every package built has passed it; an architecture mismatch ends the    *)
(* run at once with no sudo, build, removal, install or marker write.      *)
(***************************************************************************)
C10_ArchCheckedBeforeBuild ==
    /\ build_log # <<>> =>
          /\ pc # "review"
          /\ \A p \in Range(all_aur_packages_names) \ review_skipped :
                p \in arch_passed
    /\ \A p \in Range(build_log) : p \in arch_passed
    /\ reason = "arch" =>
          /\ pc = "exit"
          /\ exit_code = 1
          /\ ~sudo_acquired
          /\ NoBuildRemovalInstall

C10_Witness ==
    /\ pc = "exit"
    /\ reason = "arch"
    /\ review_log = <<"baz", "bar">>
    /\ arch_passed = {"baz"}
    /\ packages_to_be_removed # {}

(***************************************************************************)
(* C11: the exit status tells the cause: an architecture mismatch exits    *)
(* with 2, every user decline and generic abort with 1, and a run that     *)
(* returns has passed no status to sys.exit, so the process exits with 0.  *)
(***************************************************************************)
C11_ExitStatusByCause ==
    /\ reason = "arch" => exit_code = 2
    /\ reason \in {"prompt", "clone", "conflict_new", "conflict_declined",
                   "step_declined"} => exit_code = 1
    /\ pc = "returned" => exit_code = 0

(***************************************************************************)
(* C12: under the needed policy no build is invoked for a package whose    *)
(* installed version already satisfies the request; the build loop skips   *)
(* it.                                                                     *)
(***************************************************************************)
C12_NeededSkipsSatisfied ==
    args_needed =>
        /\ \A p \in version_already_installed : p \notin Range(build_log)
        /\ pc \in {"remove", "repo", "dlcheck", "deps", "aur", "save",
                   "summary", "returned"} =>
              version_already_installed \subseteq build_skipped

C12_Witness ==
    /\ args_needed
    /\ pc = "returned"
    /\ version_already_installed = {"bar"}
    /\ build_skipped = {"bar"}
    /\ build_log = <<"baz">>

(***************************************************************************)
(* C13: after a clone or pull failure that the user chose to continue      *)
(* from, the run does not end in an error; after one the user declined,    *)
(* the run has exited with status 1 before any review or build.            *)
(***************************************************************************)
C13_CloneFailureNotFatal ==
    /\ (package_builds = "None" /\ all_aur_packages_names # <<>>
            /\ pc \notin {"resolve", "prompt", "clone"} /\ reason # "clone") =>
          pc # "crashed"
    /\ reason = "clone" =>
          /\ pc = "exit"
          /\ exit_code = 1
          /\ review_log = <<>>
          /\ review_skipped = {}
          /\ build_log = <<>>

(***************************************************************************)
(* C14 as stated: the user is asked at most once about each conflicting    *)
(* installed package.                                                      *)
(***************************************************************************)
C14_AskedOncePerInstalled ==
    \A p \in Installed : Count(p, removal_prompts) <= 1

\* the new packages whose conflict list holds p
ConflictingWith(p) == {k \in DOMAIN conflict_result : p \in conflict_result[k]}

(***************************************************************************)
(* C14 amended: the user is asked once per pair of a new package and an    *)
(* installed package it conflicts with; a declined prompt ends the run     *)
(* with status 1 and no removal, build or install; otherwise the one       *)
(* removal command holds exactly the installed packages asked about, each  *)
(* once.                                                                   *)
(***************************************************************************)
C14_AskedOncePerConflictPair ==
    /\ \A p \in Range(removal_prompts) : p \in Installed
    /\ reason = "conflict_declined" =>
          /\ pc = "exit"
          /\ exit_code = 1
          /\ removal_prompts # <<>>
          /\ \A p \in Installed :
                Count(p, removal_prompts) <= Cardinality(ConflictingWith(p))
          /\ packages_to_be_removed = {}
          /\ NoBuildRemovalInstall
    /\ pc \in {"review", "sudo", "build", "remove", "repo", "dlcheck", "deps",
               "aur", "save", "summary", "returned"} =>
          \A p \in Installed :
              Count(p, removal_prompts) = Cardinality(ConflictingWith(p))
    /\ Cardinality({i \in DOMAIN log : log[i].step = "remove"}) <= 1
    /\ \A i \in DOMAIN log : log[i].step = "remove" =>
          /\ Range(log[i].pkgs) = Range(removal_prompts)
          /\ \A p \in Installed : Count(p, log[i].pkgs) <= 1

C14_Witness ==
    /\ pc = "returned"
    /\ removal_prompts = <<"old", "old">>
    /\ "remove" \in cmd_ok
    /\ log[1] = [step |-> "remove", pkgs |-> <<"old">>]

(***************************************************************************)
(* C18: no command is issued with an empty package list; in a run whose    *)
(* remote-index set is empty and whose conflict result names no package,   *)
(* nothing is reviewed, built, removed or marked, the only command issued  *)
(* is one repository install, and once the repository step is over that   *)
(* command was issued with exactly the requested repository packages.      *)
(***************************************************************************)
C18_EmptyWorkNoCommand ==
    /\ \A i \in DOMAIN log : log[i].pkgs # <<>>
    /\ (all_aur_packages_names = <<>>
            /\ AllConflictValues(conflict_result) = {}) =>
          /\ review_log = <<>>
          /\ build_log = <<>>
          /\ build_skipped = {}
          /\ markers = {}
          /\ \A i \in DOMAIN log : log[i].step = "repo"
          /\ Len(log) <= 1
          /\ (pc \in {"dlcheck", "deps", "aur", "save", "summary", "returned"}
                  /\ repo_packages_names # <<>>) =>
                log = <<[step |-> "repo", pkgs |-> repo_packages_names]>>

C18_Witness ==
    /\ pc = "returned"
    /\ ~args_downloadonly
    /\ repo_packages_names = <<"foo">>
    /\ all_aur_packages_names = <<>>
    /\ conflict_result["foo"] = {}
    /\ log = <<[step |-> "repo", pkgs |-> <<"foo">>]>>
    /\ cmd_ok = {"repo"}

\* position of x in seq
Pos(x, seq) == CHOOSE i \in DOMAIN seq : seq[i] = x

\* x and y both occur in seq, x first
Before(x, y, seq) ==
    /\ {x, y} \subseteq Range(seq)
    /\ Pos(x, seq) < Pos(y, seq)

ConflictsAmongNew ==
    dep_conflicts \cup
    {kv \in (DOMAIN conflict_result) \X NewlyInstalled :
        kv[2] \in conflict_result[kv[1]]}

(***************************************************************************)
(* C20: whenever two packages newly installed by the run are declared in   *)
(* conflict, be they repository-backed, explicitly requested remote-index  *)
(* packages or remote-index dependencies, the run has exited at the        *)
(* conflict check with status 1 and no removal prompt was shown.           *)
(***************************************************************************)
C20_AnyConflictAmongNewAborts ==
    ConflictsAmongNew # {} =>
        /\ pc = "exit"
        /\ exit_code = 1
        /\ reason = "conflict_new"
        /\ removal_prompts = <<>>

\* the task _run_install has ended
PipelineFinished == pipeline \in {"returned", "SysExit", "Exception"}

(***************************************************************************)
(* C15: once the pipeline task has finished, by return, by SysExit or by   *)
(* any other exception, the keep-alive task is eventually not running any  *)
(* more and cli_install_packages has returned or raised the exception of   *)
(* the pipeline, unless a SIGINT ended the process first; when it raises,   *)
(* what it raises is the exception of the pipeline, and after a keep-alive *)
(* error the process still ends with the status of the pipeline's outcome. *)
(***************************************************************************)
C15_KeepAliveTerminated ==
    /\ [](/\ cli_result = "returned" => pipeline = "returned"
          /\ cli_result = "raised" =>
                /\ pipeline \in {"SysExit", "Exception"}
                /\ ~running_as_root => catched_exc = pipeline
          /\ (cli_result # "none" /\ ~running_as_root) => pool_terminated
          /\ (main_pc = "exited" /\ interrupted = "no") =>
                /\ pipeline = "returned" => status = 0
                /\ pipeline = "SysExit" => status = exit_code)
    /\ PipelineFinished ~>
          /\ keepalive # "running"
          /\ cli_result # "none" \/ interrupted # "no"

C15_Witness ==
    /\ main_pc = "exited"
    /\ interrupted = "no"
    /\ pipeline = "SysExit"
    /\ cli_result = "raised"
    /\ pool_terminated
    /\ keepalive = "dead"
    /\ ticks = 1

(***************************************************************************)
(* C16: an unprivileged run has made its one sudo_loop(once=True) call,    *)
(* waited for, before the pipeline and the keep-alive task are started;    *)
(* the pipeline reaches a privileged step only after its own 'sudo true';  *)
(* the keep-alive task runs only in an unprivileged run; as root the main  *)
(* thread makes no such call and no keep-alive task is started.            *)
(***************************************************************************)
C16_SudoBeforePipeline ==
    /\ main_sudo <= 1
    /\ (~running_as_root /\ pipeline # "idle") => main_sudo = 1
    /\ keepalive # "idle" => (~running_as_root /\ main_sudo = 1)
    /\ ticks > 0 => main_sudo = 1
    /\ pc \in PrivilegedPhases => (pipeline # "idle" /\ sudo_acquired)
    /\ running_as_root => (main_sudo = 0 /\ keepalive = "idle" /\ ticks = 0)

C16_Witness ==
    /\ ~running_as_root
    /\ main_sudo = 1
    /\ keepalive = "running"
    /\ ticks = 1
    /\ pc = "remove"
    /\ in_step
    /\ sudo_acquired

(***************************************************************************)
(* C17 as stated: a SIGINT taken by handle_sig_int ends the process with   *)
(* the terminal restored and a status no other exit uses, and never while  *)
(* the pipeline is in the middle of a phase.                               *)
(***************************************************************************)
C17_InterruptAtPhaseBoundary ==
    interrupted = "handler" =>
        /\ tty_restored
        /\ status \notin {0, 1, 2, 22, 65}
        /\ ~interrupt_mid_step

(***************************************************************************)
(* C17 amended: a SIGINT taken by handle_sig_int ends the process with the *)
(* terminal restored and status 125, whatever the pipeline is doing, and   *)
(* no exit without a SIGINT has status 125.                                *)
(***************************************************************************)
C17_InterruptExits125 ==
    /\ interrupted = "handler" =>
          /\ main_pc = "exited"
          /\ status = 125
          /\ tty_restored
    /\ (main_pc = "exited" /\ interrupted = "no") => status # 125

C17_Witness ==
    /\ interrupted = "handler"
    /\ interrupt_mid_step
    /\ ~running_as_root
    /\ pc = "repo"
    /\ status = 125
    /\ tty_restored
    /\ pool_terminated

\* the build loop of the run is over
BuildLoopOver ==
    \/ pc \in {"remove", "repo", "dlcheck", "deps", "aur", "save", "summary",
               "returned"}
    \/ reason = "step_declined"

C24_RemovedOnlyIfConflictingInstalled ==
    pc = "returned" =>
        /\ \A p \in BatchOf("remove") :
              \E k \in ConflictingWith(p) :
                  k \in BatchOf("repo") \cup BatchOf("aur")
        /\ \A p \in Installed :
              (/\ ConflictingWith(p) # {}
               /\ ConflictingWith(p) \subseteq
                      Range(failed_to_build) \cup build_skipped)
                  => p \notin BatchOf("remove")

(***************************************************************************)
(* C21: for every requested list, names occurring more than once included, *)
(* and every ignore list, the list handed to find_repo_packages holds no   *)
(* ignored name and holds every requested name that is not ignored.        *)
(***************************************************************************)
C21_IgnoredStrippedBeforeResolve ==
    \A i \in DOMAIN resolver_arg :
        /\ \A n \in Range(args_ignore) : n \notin Range(resolver_arg[i])
        /\ \A n \in Range(args_positional) \ Range(args_ignore) :
              n \in Range(resolver_arg[i])

\* the phases of the pipeline that ask the user or spawn an interactive
\* command, install_cli.py:145-148 (install_prompt), :153-165, :186-195,
\* :215-238, :270-282, :287-301, :309-329, :334-352
InteractivePhases ==
    {"prompt", "clone", "conflicts", "review", "remove", "repo", "deps", "aur"}

\* the pipeline task is in the middle of such a phase
PipelineInteracting ==
    /\ pipeline = "running"
    /\ in_step
    /\ pc \in InteractivePhases

(***************************************************************************)
(* C22: interactive invocations occur only on the pipeline thread: in no   *)
(* interleaving does the keep-alive task spawn its interactive command     *)
(* while the pipeline thread is inside a prompt or an interactive command. *)
(***************************************************************************)
C22_InteractiveOnlyOnPipelineThread ==
    [][KeepAliveSpawn => ~PipelineInteracting]_vars

====
